---- MODULE Spec2Model ----
(***************************************************************************)
(* adbutils/__init__.py: AdbClient (list, iter_device, device) and the     *)
(* AsyncAdbController bridge.                                              *)
(*                                                                         *)
(* Text is a sequence of lexemes (strings without inner structure for the  *)
(* parser): a whitespace lexeme, the line terminator, the ':' separator or *)
(* a run of other characters.  A token of a line is a sequence of lexemes, *)
(* and Str turns it into the string the code stores.                       *)
(*                                                                         *)
(* Spec       : one call of AdbClient.list / iter_device / device against  *)
(*              a daemon with a given device listing.                      *)
(* SpecBridge : two AsyncAdbController.shell calls, each dispatched to its *)
(*              own thread, with cancellation of the awaiting callers.     *)
(***************************************************************************)
EXTENDS Naturals, Sequences, FiniteSets, TLC

VARIABLES
    listing,    \* the daemon: the lines of its device listing
    environ,    \* os.environ.get("ANDROID_SERIAL"), an optional string
    op,         \* the AdbClient call in progress and its arguments
    pc,         \* where that call stands
    conn,       \* the connection list() opened: "none", "open", "closed"
    sent,       \* the commands sent on that connection
    output,     \* what read_string_block returned
    infos,      \* what list() returned
    raised,     \* the exception the call raised, NoError when none
    result,     \* what iter_device yielded / device returned
    task,       \* bridge: the arguments of each bridged shell call
    caller,     \* bridge: the coroutine awaiting each call
    thread,     \* bridge: the worker thread running device.shell
    socks,      \* bridge: the sockets opened so far, in order
    surfaced    \* bridge: what each caller got back

clientVars == <<listing, environ, op, pc, conn, sent, output, infos, raised, result>>
bridgeVars == <<task, caller, thread, socks, surfaced>>
vars == <<listing, environ, op, pc, conn, sent, output, infos, raised, result,
          task, caller, thread, socks, surfaced>>

(***************************************************************************)
(* Bounds and input sets                                                   *)
(***************************************************************************)
MaxLines == 3

\* The lines a daemon listing is drawn from: blank and one-token lines,
\* tab and blank separated entries in several states, surrounding
\* whitespace, and extended entries whose tag tokens hold one ':', two ':'
\* or none.
Lines ==
    { <<>>,
      <<"AAA">>,
      <<"AAA", "\t", "device">>,
      <<"BBB", "\t", "offline">>,
      <<" ", "CCC", " ", " ", "device", " ">>,
      <<"AAA", " ", "device", " ", "usb", ":", "1", " ", "model", ":", "Pixel">>,
      <<"AAA", " ", "device", " ", "usb", ":", "1", ":", "2">>,
      <<"BBB", " ", "device", " ", "usb">> }

RECURSIVE SeqsUpTo(_, _)
SeqsUpTo(S, n) ==
    IF n = 0 THEN { <<>> }
    ELSE LET shorter == SeqsUpTo(S, n - 1)
         IN  shorter \cup { Append(s, x) : s \in shorter, x \in S }

Listings == SeqsUpTo(Lines, MaxLines)

(***************************************************************************)
(* Optional values (None / a value) and Python truthiness                  *)
(***************************************************************************)
None == <<>>
Some(x) == <<x>>

\* `if serial:` on an optional string
TruthyStr(o) == o # None /\ o[1] # ""
\* `if transport_id:` on an optional int
TruthyInt(o) == o # None /\ o[1] # 0

NoError == [kind |-> "none", msg |-> ""]

\* AdbDevice(client, serial=..., transport_id=...)
AdbDevice(serial, transport_id) == [serial |-> serial, transport_id |-> transport_id]

(***************************************************************************)
(* Text                                                                    *)
(***************************************************************************)
IsSpace(c) == c \in {" ", "\t", "\n"}

RECURSIVE Str(_)
Str(s) == IF s = <<>> THEN "" ELSE s[1] \o Str(Tail(s))

\* str.splitlines(): a line ends at its terminator; no empty last line
RECURSIVE SplitLinesFrom(_, _, _)
SplitLinesFrom(text, i, cur) ==
    IF i > Len(text) THEN (IF cur = <<>> THEN <<>> ELSE <<cur>>)
    ELSE IF text[i] = "\n" THEN <<cur>> \o SplitLinesFrom(text, i + 1, <<>>)
    ELSE SplitLinesFrom(text, i + 1, Append(cur, text[i]))

splitlines(text) == SplitLinesFrom(text, 1, <<>>)

\* str.split(): the maximal runs of non-whitespace, none empty
RECURSIVE SplitFrom(_, _, _)
SplitFrom(line, i, cur) ==
    IF i > Len(line) THEN (IF cur = <<>> THEN <<>> ELSE <<cur>>)
    ELSE IF IsSpace(line[i])
         THEN (IF cur = <<>> THEN <<>> ELSE <<cur>>) \o SplitFrom(line, i + 1, <<>>)
    ELSE SplitFrom(line, i + 1, Append(cur, line[i]))

split(line) == SplitFrom(line, 1, <<>>)

\* str.split(":"): cut at every separator, empty pieces kept
RECURSIVE SplitSepFrom(_, _, _)
SplitSepFrom(tok, i, cur) ==
    IF i > Len(tok) THEN <<cur>>
    ELSE IF tok[i] = ":" THEN <<cur>> \o SplitSepFrom(tok, i + 1, <<>>)
    ELSE SplitSepFrom(tok, i + 1, Append(cur, tok[i]))

splitColon(tok) == SplitSepFrom(tok, 1, <<>>)

(***************************************************************************)
(* The daemon                                                              *)
(***************************************************************************)
\* The block the daemon answers host:devices with: every line and its
\* terminator.
RECURSIVE DaemonBlock(_)
DaemonBlock(ls) ==
    IF ls = <<>> THEN <<>> ELSE ls[1] \o <<"\n">> \o DaemonBlock(Tail(ls))

(***************************************************************************)
(* AdbClient.list                                                          *)
(***************************************************************************)
num_required_fields == 2

\* {kv[0]: kv[1] for kv in map(lambda pair: pair.split(":"), parts[2:])}
\* folded left to right over the tokens, a later key replacing an earlier.
RECURSIVE TagsFrom(_, _, _)
TagsFrom(parts, i, acc) ==
    IF i > Len(parts) THEN [raised |-> NoError, tags |-> acc]
    ELSE LET kv == splitColon(parts[i])
         IN  IF Len(kv) < 2
             THEN [raised |-> [kind |-> "IndexError", msg |-> "list index out of range"],
                   tags |-> <<>>]
             ELSE TagsFrom(parts, i + 1, (Str(kv[1]) :> Str(kv[2])) @@ acc)

\* the body of `for line in output.splitlines()`, from line i on
RECURSIVE ParseLinesFrom(_, _, _, _)
ParseLinesFrom(lines, i, extended, acc) ==
    IF i > Len(lines) THEN [raised |-> NoError, infos |-> acc]
    ELSE LET parts == split(lines[i])
         IN  IF Len(parts) < num_required_fields
             THEN ParseLinesFrom(lines, i + 1, extended, acc)
             ELSE LET t == IF extended
                           THEN TagsFrom(parts, num_required_fields + 1, <<>>)
                           ELSE [raised |-> NoError, tags |-> <<>>]
                  IN  IF t.raised # NoError
                      THEN [raised |-> t.raised, infos |-> <<>>]
                      ELSE ParseLinesFrom(lines, i + 1, extended,
                               Append(acc, [serial |-> Str(parts[1]),
                                            state  |-> Str(parts[2]),
                                            tags   |-> t.tags]))

\* the records added at the front of infos instead of the end
RECURSIVE ReverseSeq(_)
ReverseSeq(q) == IF q = <<>> THEN <<>> ELSE Append(ReverseSeq(Tail(q)), q[1])

ParseListingPrepending(text, extended) ==
    LET r == ParseLinesFrom(splitlines(text), 1, extended, <<>>)
    IN  [raised |-> r.raised, infos |-> ReverseSeq(r.infos)]

ParseListing(text, extended) == ParseLinesFrom(splitlines(text), 1, extended, <<>>)

\* AdbConnection.__exit__: the socket is closed
Release(c) == "closed"

\* a close() at the end of the block instead of a with statement
WithExitOnReturnOnly(c, exc) == IF exc = NoError THEN Release(c) ELSE c

\* `with self.make_connection() as c:` left with exception exc (NoError on
\* a normal exit): __exit__ runs either way
WithExit(c, exc) == Release(c)

\* for info in self.list(): if info.state != "device": continue; yield ...
RECURSIVE IterDeviceFrom(_, _)
IterDeviceFrom(ds, i) ==
    IF i > Len(ds) THEN <<>>
    ELSE IF ds[i].state # "device" THEN IterDeviceFrom(ds, i + 1)
    ELSE <<AdbDevice(Some(ds[i].serial), None)>> \o IterDeviceFrom(ds, i + 1)

\* iter_device without its state test
RECURSIVE EveryEntryFrom(_, _)
EveryEntryFrom(ds, i) ==
    IF i > Len(ds) THEN <<>>
    ELSE <<AdbDevice(Some(ds[i].serial), None)>> \o EveryEntryFrom(ds, i + 1)

device_list_unfiltered(ds) == EveryEntryFrom(ds, 1)

\* list(self.iter_device())
device_list(ds) == IterDeviceFrom(ds, 1)

NoDeviceFound == [kind |-> "AdbError", msg |-> "Can't find any android device/emulator"]
MoreThanOne ==
    [kind |-> "AdbError",
     msg  |-> "more than one device/emulator, please specify the serial number"]

\* device(): the three early returns; auto is TRUE when none is taken
DeviceSelect(serial, transport_id, env) ==
    IF TruthyStr(serial)
    THEN [auto |-> FALSE, handle |-> AdbDevice(serial, None)]
    ELSE IF TruthyInt(transport_id)
    THEN [auto |-> FALSE, handle |-> AdbDevice(None, transport_id)]
    ELSE IF TruthyStr(env)
    THEN [auto |-> FALSE, handle |-> AdbDevice(env, None)]
    ELSE [auto |-> TRUE, handle |-> AdbDevice(None, None)]

\* device() without the test for more than one device
AutoDetectFirst(ds) ==
    IF Len(ds) = 0 THEN [raised |-> NoDeviceFound, handles |-> <<>>]
    ELSE [raised |-> NoError, handles |-> <<ds[1]>>]

\* device(): ds = self.device_list() and the two length tests
AutoDetect(ds) ==
    IF Len(ds) = 0 THEN [raised |-> NoDeviceFound, handles |-> <<>>]
    ELSE IF Len(ds) > 1 THEN [raised |-> MoreThanOne, handles |-> <<>>]
    ELSE [raised |-> NoError, handles |-> <<ds[1]>>]

(***************************************************************************)
(* One AdbClient call                                                      *)
(***************************************************************************)
Serials == { None, Some("S1") }
TransportIds == { None, Some(0), Some(1) }
Environs == { None, Some("S2") }

NoOp == [name |-> "none", extended |-> FALSE, serial |-> None, transport_id |-> None]

InitBridgeIdle ==
    /\ task = <<>>
    /\ caller = <<>>
    /\ thread = <<>>
    /\ socks = <<>>
    /\ surfaced = <<>>

Init ==
    /\ listing \in Listings
    /\ environ \in Environs
    /\ op = NoOp
    /\ pc = "idle"
    /\ conn = "none"
    /\ sent = <<>>
    /\ output = <<>>
    /\ infos = <<>>
    /\ raised = NoError
    /\ result = <<>>
    /\ InitBridgeIdle

CallList(extended) ==
    /\ pc = "idle"
    /\ op' = [NoOp EXCEPT !.name = "list", !.extended = extended]
    /\ pc' = "connect"
    /\ UNCHANGED <<listing, environ, conn, sent, output, infos, raised, result>>
    /\ UNCHANGED bridgeVars

CallIterDevice ==
    /\ pc = "idle"
    /\ op' = [NoOp EXCEPT !.name = "iter_device"]
    /\ pc' = "connect"
    /\ UNCHANGED <<listing, environ, conn, sent, output, infos, raised, result>>
    /\ UNCHANGED bridgeVars

CallDevice(serial, transport_id) ==
    /\ pc = "idle"
    /\ op' = [NoOp EXCEPT !.name = "device", !.serial = serial,
                          !.transport_id = transport_id]
    /\ LET sel == DeviceSelect(serial, transport_id, environ)
       IN  IF sel.auto
           THEN pc' = "connect" /\ result' = result
           ELSE pc' = "done" /\ result' = <<sel.handle>>
    /\ UNCHANGED <<listing, environ, conn, sent, output, infos, raised>>
    /\ UNCHANGED bridgeVars

\* with self.make_connection() as c
MakeConnection ==
    /\ pc = "connect"
    /\ conn' = "open"
    /\ pc' = "send"
    /\ UNCHANGED <<listing, environ, op, sent, output, infos, raised, result>>
    /\ UNCHANGED bridgeVars

SendCommand ==
    /\ pc = "send"
    /\ sent' = Append(sent, IF op.extended THEN "host:devices-l" ELSE "host:devices")
    /\ pc' = "check"
    /\ UNCHANGED <<listing, environ, op, conn, output, infos, raised, result>>
    /\ UNCHANGED bridgeVars

\* c.check_okay(): the daemon answers OKAY or FAIL
CheckOkay ==
    /\ pc = "check"
    /\ \E status \in {"OKAY", "FAIL"} :
          IF status = "OKAY"
          THEN pc' = "read" /\ UNCHANGED <<conn, raised>>
          ELSE LET exc == [kind |-> "ProtocolError", msg |-> "FAIL"]
               IN  /\ raised' = exc
                   /\ conn' = WithExit(conn, exc)
                   /\ pc' = "listed"
    /\ UNCHANGED <<listing, environ, op, sent, output, infos, result>>
    /\ UNCHANGED bridgeVars

\* c.read_string_block(): the whole block, or a short read
ReadStringBlock ==
    /\ pc = "read"
    /\ \E whole \in BOOLEAN :
          IF whole
          THEN /\ output' = DaemonBlock(listing)
               /\ pc' = "parse"
               /\ UNCHANGED <<conn, raised>>
          ELSE LET exc == [kind |-> "FramingError", msg |-> "short read"]
               IN  /\ raised' = exc
                   /\ conn' = WithExit(conn, exc)
                   /\ pc' = "listed"
                   /\ output' = output
    /\ UNCHANGED <<listing, environ, op, sent, infos, result>>
    /\ UNCHANGED bridgeVars

\* the for loop over output.splitlines(), then the end of the with block
ParseLines ==
    /\ pc = "parse"
    /\ LET r == ParseListing(output, op.extended)
       IN  /\ raised' = r.raised
           /\ infos' = r.infos
           /\ conn' = WithExit(conn, r.raised)
    /\ pc' = "listed"
    /\ UNCHANGED <<listing, environ, op, sent, output, result>>
    /\ UNCHANGED bridgeVars

\* return infos (or the exception leaves list)
ReturnList ==
    /\ pc = "listed"
    /\ op.name = "list"
    /\ pc' = "done"
    /\ UNCHANGED <<listing, environ, op, conn, sent, output, infos, raised, result>>
    /\ UNCHANGED bridgeVars

IterDevice ==
    /\ pc = "listed"
    /\ op.name = "iter_device"
    /\ result' = IF raised = NoError THEN device_list(infos) ELSE <<>>
    /\ pc' = "done"
    /\ UNCHANGED <<listing, environ, op, conn, sent, output, infos, raised>>
    /\ UNCHANGED bridgeVars

DeviceAutoDetect ==
    /\ pc = "listed"
    /\ op.name = "device"
    /\ IF raised # NoError
       THEN UNCHANGED <<raised, result>>
       ELSE LET r == AutoDetect(device_list(infos))
            IN  raised' = r.raised /\ result' = r.handles
    /\ pc' = "done"
    /\ UNCHANGED <<listing, environ, op, conn, sent, output, infos>>
    /\ UNCHANGED bridgeVars

Next ==
    \/ \E extended \in BOOLEAN : CallList(extended)
    \/ CallIterDevice
    \/ \E serial \in Serials, transport_id \in TransportIds :
          CallDevice(serial, transport_id)
    \/ MakeConnection
    \/ SendCommand
    \/ CheckOkay
    \/ ReadStringBlock
    \/ ParseLines
    \/ ReturnList
    \/ IterDevice
    \/ DeviceAutoDetect

Spec == Init /\ [][Next]_vars

(***************************************************************************)
(* What a listing line holds, stated on the line itself: a token starts    *)
(* where a non-whitespace lexeme follows whitespace or the line's start,   *)
(* and runs to the last lexeme before the next whitespace.                 *)
(***************************************************************************)
TokenStarts(l) ==
    { i \in 1..Len(l) : ~IsSpace(l[i]) /\ (i = 1 \/ IsSpace(l[i - 1])) }

NthStart(l, n) ==
    CHOOSE i \in TokenStarts(l) : Cardinality({ j \in TokenStarts(l) : j <= i }) = n

TokenEnd(l, i) ==
    CHOOSE j \in i..Len(l) :
        /\ \A k \in i..j : ~IsSpace(l[k])
        /\ (j = Len(l) \/ IsSpace(l[j + 1]))

\* the lexemes of the n-th token of line l
NthToken(l, n) == SubSeq(l, NthStart(l, n), TokenEnd(l, NthStart(l, n)))

NumTokens(l) == Cardinality(TokenStarts(l))

HasTwoTokens(l) == NumTokens(l) >= 2

\* the lines of the daemon's listing that make a record
RecordLines == SelectSeq(listing, HasTwoTokens)

ListReturned == op.name = "list" /\ pc = "done" /\ raised = NoError

\* C4: when list() returns, it returns one record per listing line with at
\* least two whitespace-separated tokens, in the order of the lines, with
\* serial the first token and state the second; lines with fewer tokens
\* give no record.
C4_ListOneRecordPerLine ==
    ListReturned =>
        /\ Len(infos) = Len(RecordLines)
        /\ \A i \in 1..Len(infos) :
              /\ infos[i].serial = Str(NthToken(RecordLines[i], 1))
              /\ infos[i].state = Str(NthToken(RecordLines[i], 2))

\* a listing with a blank line, a one-token line and two entries, parsed
C4_Witness ==
    /\ ListReturned
    /\ Len(listing) = 3
    /\ Len(infos) = 2
    /\ infos[1].serial # infos[2].serial
    /\ \E i \in 1..Len(listing) : NumTokens(listing[i]) < 2

IsDeviceState(info) == info.state = "device"

IterDeviceReturned == op.name = "iter_device" /\ pc = "done" /\ raised = NoError

\* C5: iter_device() yields one handle per entry of list() whose state is
\* "device", in listing order, bound to that entry's serial and to nothing
\* else; entries in other states are left out without an error.
C5_IterDeviceFilters ==
    IterDeviceReturned =>
        LET kept == SelectSeq(infos, IsDeviceState)
        IN  /\ Len(result) = Len(kept)
            /\ \A i \in 1..Len(kept) :
                  result[i] = [serial |-> Some(kept[i].serial), transport_id |-> None]

\* AAA (device), BBB (offline), CCC (device): handles for AAA then CCC
C5_Witness ==
    /\ IterDeviceReturned
    /\ Len(infos) = 3
    /\ infos[2].state = "offline"
    /\ Len(result) = 2
    /\ result[1].serial = Some("AAA")
    /\ result[2].serial = Some("CCC")

\* C6: once list() has returned or raised, the connection it opened is
\* closed, whichever way the with block was left (return, FAIL status,
\* short read, exception while parsing); it is open only inside the block.
C6_ConnectionReleased ==
    /\ pc \in {"listed", "done"} => conn # "open"
    /\ conn = "open" => pc \in {"send", "check", "read", "parse"}

\* list(extended) left by the IndexError of a tag token without ':'
C6_Witness ==
    /\ op.name = "list"
    /\ pc = "done"
    /\ raised.kind = "IndexError"
    /\ conn = "closed"

\* the place of the first ':' of a token, 0 when it has none
FirstColon(tok) ==
    IF \E i \in 1..Len(tok) : tok[i] = ":"
    THEN CHOOSE i \in 1..Len(tok) : tok[i] = ":" /\ \A j \in 1..(i - 1) : tok[j] # ":"
    ELSE 0

\* C8: in list(extended=true) every token after the first two is in the
\* record's tags as key -> value, the key the whole text before its ':'
\* and the value the whole text after it; in list(extended=false) every
\* record's tags are empty.
C8_TagsSplitAtSeparator ==
    ListReturned =>
        \A i \in 1..Len(infos) :
            IF op.extended
            THEN \A n \in 3..NumTokens(RecordLines[i]) :
                    LET tok == NthToken(RecordLines[i], n)
                        c   == FirstColon(tok)
                        key == Str(SubSeq(tok, 1, c - 1))
                        val == Str(SubSeq(tok, c + 1, Len(tok)))
                    IN  /\ c > 0
                        /\ key \in DOMAIN infos[i].tags
                        /\ infos[i].tags[key] = val
            ELSE DOMAIN infos[i].tags = {}

DeviceDone == op.name = "device" /\ pc = "done"

\* C1: device(serial, transport_id) binds the handle to the serial when
\* one is given, else to the transport id when one is given (0 included),
\* else to ANDROID_SERIAL when present, and auto-detects only otherwise.
C1_PriorityChain ==
    DeviceDone =>
        IF op.serial # None
        THEN result = <<AdbDevice(op.serial, None)>>
        ELSE IF op.transport_id # None
        THEN result = <<AdbDevice(None, op.transport_id)>>
        ELSE IF environ # None
        THEN result = <<AdbDevice(environ, None)>>
        ELSE conn # "none"

\* C10: with a serial, a transport id or ANDROID_SERIAL available,
\* device() returns a handle without opening a connection or sending a
\* discovery command; only auto-detection talks to the daemon.
C10_NoExistenceCheck ==
    DeviceDone =>
        IF op.serial # None \/ op.transport_id # None \/ environ # None
        THEN conn = "none" /\ sent = <<>> /\ Len(result) = 1 /\ raised = NoError
        ELSE sent = <<"host:devices">> \/ raised.kind = "ProtocolError"

\* device() called with no selector and no ANDROID_SERIAL, and the
\* discovery it ran answered
AutoDetected ==
    /\ DeviceDone
    /\ op.serial = None /\ op.transport_id = None /\ environ = None
    /\ raised.kind \notin {"ProtocolError", "FramingError"}

Connected == SelectSeq(infos, IsDeviceState)

PyNone == [type |-> "NoneType", b |-> FALSE, n |-> 0]
PyBool(b) == [type |-> "bool", b |-> b, n |-> 0]
PyNum(n) == [type |-> "float", b |-> FALSE, n |-> n]

\* bool(v)
Truthy(v) ==
    IF v.type = "bool" THEN v.b
    ELSE IF v.type = "float" THEN v.n # 0
    ELSE FALSE

Tasks == {"t1", "t2"}

\* the two calls are made on two different device handles
DeviceOf(t) == IF t = "t1" THEN AdbDevice(Some("AAA"), None) ELSE AdbDevice(Some("CCC"), None)

Timeouts == { PyNone, PyNum(5) }

\* AdbDevice.shell(cmdargs, stream=False, timeout=None) called with the
\* positional arguments args
BindShell(args) ==
    [cmdargs |-> args[1],
     stream  |-> IF Len(args) >= 2 THEN args[2] ELSE PyBool(FALSE),
     timeout |-> IF Len(args) >= 3 THEN args[3] ELSE PyNone]

\* asyncio.to_thread(device.shell, cmd, timeout): the call the thread makes
DispatchShell(cmd, timeout) == BindShell(<<cmd, timeout>>)

NoArgs == [cmdargs |-> "", stream |-> PyNone, timeout |-> PyNone]

\* what a call gives back: the decoded output, a live stream on a socket,
\* or an exception
NoOutcome == [kind |-> "none", text |-> "", sock |-> 0, error |-> NoError]
TextOutcome(text) == [NoOutcome EXCEPT !.kind = "text", !.text = text]
StreamOutcome(k) == [NoOutcome EXCEPT !.kind = "stream", !.sock = k]
ErrorOutcome(kind) == [NoOutcome EXCEPT !.kind = "error", !.error = [kind |-> kind, msg |-> ""]]

\* what the device prints for a command
DaemonOutput(device, cmd) == device.serial[1] \o "$ " \o cmd

\* how the exchange on a non-stream shell session can end
Endings(args) ==
    {"eof", "fail"} \cup (IF args.timeout # PyNone THEN {"timeout"} ELSE {})

InitBridge ==
    /\ listing = <<>>
    /\ environ = None
    /\ op = NoOp
    /\ pc = "idle"
    /\ conn = "none"
    /\ sent = <<>>
    /\ output = <<>>
    /\ infos = <<>>
    /\ raised = NoError
    /\ result = <<>>
    /\ task \in [Tasks -> [cmd : {"ls"}, timeout : Timeouts]]
    /\ caller = [t \in Tasks |-> "idle"]
    /\ thread = [t \in Tasks |->
                   [pc |-> "none", args |-> NoArgs, sock |-> 0, outcome |-> NoOutcome]]
    /\ socks = <<>>
    /\ surfaced = [t \in Tasks |-> NoOutcome]

\* async def shell(self, device, cmd, timeout): the call is handed to a
\* worker thread and the coroutine awaits it
BridgeShell(t) ==
    /\ caller[t] = "idle"
    /\ caller' = [caller EXCEPT ![t] = "awaiting"]
    /\ thread' = [thread EXCEPT ![t].pc = "start",
                                ![t].args = DispatchShell(task[t].cmd, task[t].timeout)]
    /\ UNCHANGED <<task, socks, surfaced>>
    /\ UNCHANGED clientVars

\* device.shell: a fresh session of its own
ShellOpen(t) ==
    /\ thread[t].pc = "start"
    /\ socks' = Append(socks, [owner |-> t, state |-> "open", transport |-> None,
                               sent |-> <<>>])
    /\ thread' = [thread EXCEPT ![t].pc = "select", ![t].sock = Len(socks) + 1]
    /\ UNCHANGED <<task, caller, surfaced>>
    /\ UNCHANGED clientVars

\* device.shell: the selector command; the daemon answers OKAY or FAIL
ShellSelect(t) ==
    /\ thread[t].pc = "select"
    /\ LET k == thread[t].sock
           selector == "host:transport:" \o DeviceOf(t).serial[1]
       IN  \E status \in {"OKAY", "FAIL"} :
              IF status = "OKAY"
              THEN /\ socks' = [socks EXCEPT ![k].transport = DeviceOf(t).serial,
                                             ![k].sent = Append(@, selector)]
                   /\ thread' = [thread EXCEPT ![t].pc = "exchange"]
              ELSE /\ socks' = [socks EXCEPT ![k].state = "closed",
                                             ![k].sent = Append(@, selector)]
                   /\ thread' = [thread EXCEPT ![t].pc = "finished",
                                     ![t].outcome = ErrorOutcome("ProtocolError")]
    /\ UNCHANGED <<task, caller, surfaced>>
    /\ UNCHANGED clientVars

\* device.shell: the shell command; a stream call returns the live
\* session, the other reads the output to its end and closes the session
ShellExchange(t) ==
    /\ thread[t].pc = "exchange"
    /\ LET k == thread[t].sock
           args == thread[t].args
           command == "shell:" \o args.cmdargs
       IN  IF Truthy(args.stream)
           THEN /\ socks' = [socks EXCEPT ![k].sent = Append(@, command)]
                /\ thread' = [thread EXCEPT ![t].pc = "finished",
                                            ![t].outcome = StreamOutcome(k)]
           ELSE \E ending \in Endings(args) :
                   /\ socks' = [socks EXCEPT ![k].sent = Append(@, command),
                                             ![k].state = "closed"]
                   /\ thread' = [thread EXCEPT ![t].pc = "finished",
                          ![t].outcome =
                              IF ending = "eof"
                              THEN TextOutcome(DaemonOutput(DeviceOf(t), args.cmdargs))
                              ELSE IF ending = "timeout"
                              THEN ErrorOutcome("TimeoutError")
                              ELSE ErrorOutcome("ProtocolError")]
    /\ UNCHANGED <<task, caller, surfaced>>
    /\ UNCHANGED clientVars

ThreadStep(t) == ShellOpen(t) \/ ShellSelect(t) \/ ShellExchange(t)

\* one future shared by the calls: whichever call has finished answers
AwaitedShared(t) ==
    IF \E u \in Tasks : u # t /\ thread[u].pc = "finished"
    THEN thread[CHOOSE u \in Tasks : u # t /\ thread[u].pc = "finished"].outcome
    ELSE thread[t].outcome

\* `return await asyncio.to_thread(...)`: what the awaiting caller of t gets
Awaited(t) == thread[t].outcome

\* the await completes: the call's result or exception reaches the caller
Surface(t) ==
    /\ caller[t] = "awaiting"
    /\ thread[t].pc = "finished"
    /\ surfaced' = [surfaced EXCEPT ![t] = Awaited(t)]
    /\ caller' = [caller EXCEPT ![t] =
                      IF Awaited(t).kind = "error" THEN "raised" ELSE "returned"]
    /\ UNCHANGED <<task, thread, socks>>
    /\ UNCHANGED clientVars

\* the awaiting coroutine is cancelled: it stops waiting, the thread and
\* its socket are not touched
Cancel(t) ==
    /\ caller[t] = "awaiting"
    /\ caller' = [caller EXCEPT ![t] = "cancelled"]
    /\ UNCHANGED <<task, thread, socks, surfaced>>
    /\ UNCHANGED clientVars

NextBridge ==
    \E t \in Tasks :
        \/ BridgeShell(t)
        \/ ShellOpen(t)
        \/ ShellSelect(t)
        \/ ShellExchange(t)
        \/ Surface(t)
        \/ Cancel(t)

SpecBridge == InitBridge /\ [][NextBridge]_vars

Dispatched(t) == thread[t].pc # "none"
Running(t) == thread[t].pc \in {"start", "select", "exchange"}

\* C3: the bridged shell(device, cmd, timeout) runs the blocking
\* device.shell(cmd, stream=false, timeout=timeout) and gives the caller
\* that call's full decoded output or its failure, never a stream handle.
C3_BridgeSameCall ==
    \A t \in Tasks :
        /\ Dispatched(t) =>
              /\ thread[t].args.cmdargs = task[t].cmd
              /\ ~Truthy(thread[t].args.stream)
              /\ thread[t].args.timeout = task[t].timeout
        /\ caller[t] = "returned" => surfaced[t].kind = "text"
        /\ caller[t] = "raised" => surfaced[t] = thread[t].outcome

\* C7: the two calls never share a connection, each connection serves the
\* device of its own call only, each caller gets the result or failure of
\* its own call, and neither call waits for the other: a dispatched call
\* that has not finished can always take its next step, and a finished one
\* can always be handed to its waiting caller.
C7_CallsIndependent ==
    /\ \A k \in 1..Len(socks) :
          /\ thread[socks[k].owner].sock = k
          /\ socks[k].transport \in {None, DeviceOf(socks[k].owner).serial}
    /\ \A t, u \in Tasks :
          (t # u /\ thread[t].sock # 0) => thread[t].sock # thread[u].sock
    /\ \A t \in Tasks :
          /\ caller[t] \in {"returned", "raised"} =>
                /\ surfaced[t] = thread[t].outcome
                /\ surfaced[t].kind = "text" =>
                      surfaced[t].text = DaemonOutput(DeviceOf(t), task[t].cmd)
                /\ surfaced[t].kind = "stream" => surfaced[t].sock = thread[t].sock
                /\ (caller[t] = "raised") = (thread[t].outcome.kind = "error")
          /\ Running(t) => ENABLED ThreadStep(t)
          /\ (caller[t] = "awaiting" /\ thread[t].pc = "finished") => ENABLED Surface(t)

\* one call failed and the other returned its own output
C7_Witness ==
    /\ caller["t1"] = "raised"
    /\ caller["t2"] = "returned"
    /\ surfaced["t2"].kind = "text"
    /\ surfaced["t2"].text = DaemonOutput(DeviceOf("t2"), task["t2"].cmd)
    /\ Len(socks) = 2

\* C9: cancelling the awaiting caller neither closes the socket nor stops
\* the exchange: the dispatched call can still take its steps, its socket
\* stays open while it runs, and when the call has finished it has
\* released its connection.
C9_CancelLeavesCallRunning ==
    \A t \in Tasks :
        caller[t] = "cancelled" =>
            /\ Running(t) => ENABLED ThreadStep(t)
            /\ thread[t].pc = "exchange" => socks[thread[t].sock].state = "open"
            /\ thread[t].pc = "finished" => socks[thread[t].sock].state = "closed"

====
